---------------------------- MODULE Spec2Model ----------------------------
(***************************************************************************)
(* The ordering subsystem of the Exodus record-label backend: the three    *)
(* order relations (artist_song_orders, artist_video_orders,               *)
(* featured_music), the position allocator, the reorder endpoints, the     *)
(* ordered profile read and the cascades of the delete endpoints.          *)
(*                                                                         *)
(* Each request handler is one action: it runs from its first line to its  *)
(* response on its own SQLAlchemy session (autocommit=False,               *)
(* autoflush=False).  A handler that commits twice is modelled with both   *)
(* commits inside its action.  A storage failure at a commit is an input   *)
(* of the action (failAt / fault).  Requests are served one at a time:     *)
(* `last` holds the request being answered and its response until the      *)
(* session is closed (get_db).                                             *)
(*                                                                         *)
(* An optional value (Python None, SQL NULL) is the empty set, a present   *)
(* value v is {v}.                                                         *)
(*                                                                         *)
(* Reading conventions for names the snapshot leaves unresolved: in        *)
(* routes/song.py add_song the name `song` in steps 3-5 (lines 121-168) is *)
(* read as the loop variable song_data, and ArtistSongOrder as the class   *)
(* of models/artist_song_order.py; Song.artist_id, used by every song      *)
(* query, is read as a nullable integer column (schemas/song.py:49), which *)
(* models/song.py does not declare.  The router of routes/featured_music.py *)
(* is modelled as served, although main.py does not include it.            *)
(***************************************************************************)
EXTENDS Integers, Sequences, FiniteSets, TLC

\* ---------------------------------------------------------------- bounds
MaxArtists == 2
MaxChildren == 2
MaxBatch == 2
MaxItems == 2
MaxPos == 2

VARIABLES
    artists,               \* ids of the rows of table artists
    nextArtist,            \* next autoincrement id of artists
    songs,                 \* song id -> optional artist_id, rows of table songs
    nextSong,              \* next autoincrement id of songs
    videos,                \* video id -> optional artist_id, rows of table videos
    nextVideo,             \* next autoincrement id of videos
    artist_song_orders,    \* rows [artist_id, song_id, display_order]
    artist_video_orders,   \* rows [artist_id, video_id, display_order]
    featured_music,        \* rows [song_id, position]
    scope,                 \* the order relation whose endpoints this run exercises
    last                   \* the request being answered and its response

vars == <<artists, nextArtist, songs, nextSong, videos, nextVideo,
          artist_song_orders, artist_video_orders, featured_music, scope, last>>

db == <<artists, nextArtist, songs, nextSong, videos, nextVideo,
        artist_song_orders, artist_video_orders, featured_music>>

\* ---------------------------------------------------------------- inputs
ArtistIds == 1..MaxArtists
SongIds == 1..MaxChildren
VideoIds == 1..MaxChildren
Positions == 0..MaxPos

SeqsUpTo(S, n) == UNION {[1..k -> S] : k \in 0..n}

ItemOrder == [id : 1..MaxChildren, position : Positions]

ReorderRequest == SeqsUpTo(ItemOrder, MaxItems)

\* SongCreate.artist_id: Optional[int]
OptArtist == {{}} \cup {{a} : a \in ArtistIds}

\* an Optional[int] form field: absent, the sentinel -1, or an artist id
OptArtistId == {{}} \cup {{a} : a \in {-1} \cup ArtistIds}

Range(f) == {f[i] : i \in DOMAIN f}

TheOne(S) == CHOOSE x \in S : TRUE

\* rows ever created in songs and videos together
Children == (nextSong - 1) + (nextVideo - 1)

\* ------------------------------------------------------------- responses
NoRequest ==
    [op |-> "none", status |-> 0, artist |-> {}, child |-> {},
     items |-> <<>>, batch |-> <<>>, created |-> <<>>,
     songs |-> <<>>, videos |-> <<>>,
     deleted |-> [songs |-> {}, videos |-> {}, featured |-> {}]]

Response(op, status) == [NoRequest EXCEPT !.op = op, !.status = status]

\* ------------------------------------------------------ position allocator
\* variant: the allocator counts the stored positions instead of taking the
\* largest one
count_positions(positions) ==
    IF positions = {} THEN {} ELSE {Cardinality(positions)}

\* func.max(display_order).scalar(): NULL when no row matches
max_position(positions) ==
    IF positions = {} THEN {}
    ELSE {CHOOSE m \in positions : \A p \in positions : p <= m}

\* variant: positions counted from 0
next_position_from_zero(maxpos) == IF maxpos = {} THEN 0 ELSE TheOne(maxpos) + 1

next_position(maxpos) == IF maxpos = {} THEN 1 ELSE TheOne(maxpos) + 1

SongPositions(a) ==
    {r.display_order : r \in {x \in artist_song_orders : x.artist_id = a}}

VideoPositions(a) ==
    {r.display_order : r \in {x \in artist_video_orders : x.artist_id = a}}

FeaturedPositions == {r.position : r \in featured_music}

\* a run reorders and edits within one order relation; creation, deletion and
\* the profile read are open to every run
Scopes == {"artist_song_orders", "artist_video_orders", "featured_music"}

\* ---------------------------------------------------------------- Init
Init ==
    /\ artists = {}
    /\ nextArtist = 1
    /\ songs = [s \in {} |-> {}]
    /\ nextSong = 1
    /\ videos = [v \in {} |-> {}]
    /\ nextVideo = 1
    /\ artist_song_orders = {}
    /\ artist_video_orders = {}
    /\ featured_music = {}
    /\ scope \in Scopes
    /\ last = NoRequest

\* ----------------------------------------------------------------- get_db
\* no request is being answered: the next one gets a new session
Idle == last.op = "none"

\* finally: db.close() after the response of the request
get_db ==
    /\ ~Idle
    /\ last' = NoRequest
    /\ UNCHANGED <<db, scope>>

\* ------------------------------------------------------------- add_artist
add_artist(fault) ==
    /\ Idle
    /\ UNCHANGED scope
    /\ nextArtist <= MaxArtists
    /\ IF fault
       THEN /\ last' = Response("add_artist", 500)
            /\ UNCHANGED db
       ELSE /\ artists' = artists \cup {nextArtist}
            /\ nextArtist' = nextArtist + 1
            /\ last' = [Response("add_artist", 201) EXCEPT !.artist = {nextArtist}]
            /\ UNCHANGED <<songs, nextSong, videos, nextVideo, artist_song_orders,
                           artist_video_orders, featured_music>>

\* -------------------------------------------------------------- sessions
\* variant: table artist_video_orders without its UniqueConstraint
no_unique_artist_video(rows, pending) == TRUE

\* the rows a session is about to INSERT violate UniqueConstraint
\* unique_artist_video when two of them, or one of them and a stored row,
\* agree on (artist_id, video_id)
unique_artist_video(rows, pending) ==
    /\ \A i, j \in DOMAIN pending :
          (i # j) => ~(/\ pending[i].artist_id = pending[j].artist_id
                       /\ pending[i].video_id = pending[j].video_id)
    /\ \A i \in DOMAIN pending : \A r \in rows :
          ~(r.artist_id = pending[i].artist_id /\ r.video_id = pending[i].video_id)

\* ------------------------------------------------------------- add_videos
\* step 2: the items whose artist does not exist
videos_bad_artist(batch) == {i \in DOMAIN batch : batch[i] \notin artists}

\* step 5: one order entry per created video; every max query reads the stored
\* rows only, the entries added before it in the loop are pending (autoflush=False)
video_order_entries(batch) ==
    [i \in DOMAIN batch |->
        [artist_id |-> batch[i], video_id |-> nextVideo + i - 1,
         display_order |-> next_position(max_position(VideoPositions(batch[i])))]]

add_videos(batch, failAt) ==
    LET req == [Response("add_videos", 0) EXCEPT !.batch = batch]
        ids == [i \in DOMAIN batch |-> nextVideo + i - 1]
        stored == [v \in DOMAIN videos \cup Range(ids) |->
                      IF v \in DOMAIN videos THEN videos[v]
                      ELSE {batch[v - nextVideo + 1]}]
        pending == video_order_entries(batch)
    IN
    /\ Idle
    /\ UNCHANGED scope
    /\ Children + Len(batch) <= MaxChildren
    /\ IF batch = <<>> \/ videos_bad_artist(batch) # {}
       THEN /\ last' = [req EXCEPT !.status = 400]
            /\ UNCHANGED db
       ELSE IF failAt = "commit1"
       THEN /\ last' = [req EXCEPT !.status = 500]
            /\ UNCHANGED db
       ELSE /\ videos' = stored
            /\ nextVideo' = nextVideo + Len(batch)
            /\ IF failAt = "commit2" \/ ~unique_artist_video(artist_video_orders, pending)
               THEN /\ last' = [req EXCEPT !.status = 500, !.created = ids]
                    /\ UNCHANGED artist_video_orders
               ELSE /\ artist_video_orders' = artist_video_orders \cup Range(pending)
                    /\ last' = [req EXCEPT !.status = 201, !.created = ids]
            /\ UNCHANGED <<artists, nextArtist, songs, nextSong,
                           artist_song_orders, featured_music>>

\* ------------------------------------------------------------- edit_video
\* variant: a successful edit also drops the order entries of the video
edit_video_dropping_entries(video_id, artist_id, fault) ==
    LET req == [Response("edit_video", 0) EXCEPT !.child = {video_id}, !.artist = artist_id]
    IN
    /\ Idle
    /\ scope = "artist_video_orders"
    /\ UNCHANGED scope
    /\ IF video_id \notin DOMAIN videos
       THEN /\ last' = [req EXCEPT !.status = 404]
            /\ UNCHANGED db
       ELSE IF artist_id # {} /\ artist_id # {-1} /\ TheOne(artist_id) \notin artists
       THEN /\ last' = [req EXCEPT !.status = 400]
            /\ UNCHANGED db
       ELSE IF fault \/ artist_id = {-1}
       THEN /\ last' = [req EXCEPT !.status = 500]
            /\ UNCHANGED db
       ELSE /\ videos' = IF artist_id = {} THEN videos
                         ELSE [videos EXCEPT ![video_id] = artist_id]
            /\ artist_video_orders' =
                  {r \in artist_video_orders : r.video_id # video_id}
            /\ last' = [req EXCEPT !.status = 200]
            /\ UNCHANGED <<artists, nextArtist, songs, nextSong, nextVideo,
                           artist_song_orders, featured_music>>

edit_video(video_id, artist_id, fault) ==
    LET req == [Response("edit_video", 0) EXCEPT !.child = {video_id}, !.artist = artist_id]
    IN
    /\ Idle
    /\ scope = "artist_video_orders"
    /\ UNCHANGED scope
    /\ IF video_id \notin DOMAIN videos
       THEN /\ last' = [req EXCEPT !.status = 404]
            /\ UNCHANGED db
       ELSE IF artist_id # {} /\ artist_id # {-1} /\ TheOne(artist_id) \notin artists
       THEN /\ last' = [req EXCEPT !.status = 400]
            /\ UNCHANGED db
       ELSE IF fault \/ artist_id = {-1}
       \* videos.artist_id is nullable=False: the commit of artist_id = None fails
       THEN /\ last' = [req EXCEPT !.status = 500]
            /\ UNCHANGED db
       ELSE /\ videos' = IF artist_id = {} THEN videos
                         ELSE [videos EXCEPT ![video_id] = artist_id]
            /\ last' = [req EXCEPT !.status = 200]
            /\ UNCHANGED <<artists, nextArtist, songs, nextSong, nextVideo,
                           artist_song_orders, artist_video_orders, featured_music>>

\* ----------------------------------------------------------- delete_video
\* ForeignKey('videos.id', ondelete='CASCADE') of artist_video_orders
cascade_video_orders(rows, gone) == {r \in rows : r.video_id \notin gone}

delete_video(video_id, fault) ==
    LET req == [Response("delete_video", 0) EXCEPT !.child = {video_id}]
    IN
    /\ Idle
    /\ UNCHANGED scope
    /\ IF video_id \notin DOMAIN videos
       THEN /\ last' = [req EXCEPT !.status = 404]
            /\ UNCHANGED db
       ELSE IF fault
       THEN /\ last' = [req EXCEPT !.status = 500]
            /\ UNCHANGED db
       ELSE /\ videos' = [v \in DOMAIN videos \ {video_id} |-> videos[v]]
            /\ artist_video_orders' = cascade_video_orders(artist_video_orders, {video_id})
            /\ last' = [req EXCEPT !.status = 204, !.deleted.videos = {video_id}]
            /\ UNCHANGED <<artists, nextArtist, songs, nextSong, nextVideo,
                           artist_song_orders, featured_music>>

\* -------------------------------------------------- reorder_artist_videos
\* variant: the ownership check stops after the first item
first_video_not_owned(artist_id, items) ==
    {i \in DOMAIN items :
        i = 1 /\ ~(items[i].id \in DOMAIN videos /\ videos[items[i].id] = {artist_id})}

\* the ownership check: the items whose video is missing or of another artist
videos_not_owned(artist_id, items) ==
    {i \in DOMAIN items :
        ~(items[i].id \in DOMAIN videos /\ videos[items[i].id] = {artist_id})}

\* the write loop: an existing entry is overwritten in the session, a missing
\* one becomes a pending INSERT that later queries of the loop do not see
RECURSIVE reorder_videos_loop(_, _, _, _)
reorder_videos_loop(artist_id, items, rows, pending) ==
    IF items = <<>> THEN [rows |-> rows, pending |-> pending]
    ELSE LET item == Head(items)
             found == {r \in rows : r.artist_id = artist_id /\ r.video_id = item.id}
         IN IF found # {}
            THEN LET order_entry == TheOne(found)
                 IN reorder_videos_loop(artist_id, Tail(items),
                        (rows \ {order_entry}) \cup
                            {[order_entry EXCEPT !.display_order = item.position]},
                        pending)
            ELSE reorder_videos_loop(artist_id, Tail(items), rows,
                        Append(pending, [artist_id |-> artist_id, video_id |-> item.id,
                                         display_order |-> item.position]))

\* variant: the write loop never looks an entry up, every item is an INSERT
reorder_videos_insert_only(artist_id, items, fault) ==
    LET pending == [i \in DOMAIN items |->
                       [artist_id |-> artist_id, video_id |-> items[i].id,
                        display_order |-> items[i].position]]
    IN
    IF artist_id \notin artists
    THEN [status |-> 404, rows |-> artist_video_orders]
    ELSE IF videos_not_owned(artist_id, items) # {}
    THEN [status |-> 400, rows |-> artist_video_orders]
    ELSE IF fault \/ ~unique_artist_video(artist_video_orders, pending)
    THEN [status |-> 500, rows |-> artist_video_orders]
    ELSE [status |-> 200, rows |-> artist_video_orders \cup Range(pending)]

\* status and rows of artist_video_orders after the request
reorder_videos_outcome(artist_id, items, fault) ==
    LET session == reorder_videos_loop(artist_id, items, artist_video_orders, <<>>)
    IN
    IF artist_id \notin artists
    THEN [status |-> 404, rows |-> artist_video_orders]
    ELSE IF videos_not_owned(artist_id, items) # {}
    THEN [status |-> 400, rows |-> artist_video_orders]
    ELSE IF fault \/ ~unique_artist_video(session.rows, session.pending)
    THEN [status |-> 500, rows |-> artist_video_orders]
    ELSE [status |-> 200, rows |-> session.rows \cup Range(session.pending)]

reorder_artist_videos(artist_id, items, fault) ==
    LET outcome == reorder_videos_outcome(artist_id, items, fault)
    IN
    /\ Idle
    /\ scope = "artist_video_orders"
    /\ artist_video_orders' = outcome.rows
    /\ last' = [Response("reorder_artist_videos", outcome.status) EXCEPT
                   !.artist = {artist_id}, !.items = items]
    /\ UNCHANGED <<artists, nextArtist, songs, nextSong, videos, nextVideo,
                   artist_song_orders, featured_music, scope>>

\* ---------------------------------------------------------------- add_song
\* variant: table artist_song_orders without its UniqueConstraint
no_unique_artist_song(rows, pending) == TRUE

\* UniqueConstraint unique_artist_song on (artist_id, song_id)
unique_artist_song(rows, pending) ==
    /\ \A i, j \in DOMAIN pending :
          (i # j) => ~(/\ pending[i].artist_id = pending[j].artist_id
                       /\ pending[i].song_id = pending[j].song_id)
    /\ \A i \in DOMAIN pending : \A r \in rows :
          ~(r.artist_id = pending[i].artist_id /\ r.song_id = pending[i].song_id)

\* step 3: the items whose artist does not exist; Artist.id == None matches no row
songs_bad_artist(batch) ==
    {i \in DOMAIN batch : batch[i] = {} \/ TheOne(batch[i]) \notin artists}

\* step 6: one order entry per created song, each max query on the stored rows
song_order_entries(batch) ==
    [i \in DOMAIN batch |->
        [artist_id |-> TheOne(batch[i]), song_id |-> nextSong + i - 1,
         display_order |->
             next_position(max_position(SongPositions(TheOne(batch[i]))))]]

add_song(batch, cover_arts, failAt) ==
    LET req == [Response("add_song", 0) EXCEPT !.batch = batch]
        ids == [i \in DOMAIN batch |-> nextSong + i - 1]
        stored == [s \in DOMAIN songs \cup Range(ids) |->
                      IF s \in DOMAIN songs THEN songs[s]
                      ELSE batch[s - nextSong + 1]]
        pending == song_order_entries(batch)
    IN
    /\ Idle
    /\ UNCHANGED scope
    /\ Children + Len(batch) <= MaxChildren
    /\ IF batch = <<>> \/ cover_arts # Len(batch) \/ songs_bad_artist(batch) # {}
       THEN /\ last' = [req EXCEPT !.status = 400]
            /\ UNCHANGED db
       ELSE IF failAt \in {"upload", "commit1"}
       THEN /\ last' = [req EXCEPT !.status = 500]
            /\ UNCHANGED db
       ELSE /\ songs' = stored
            /\ nextSong' = nextSong + Len(batch)
            /\ IF failAt = "commit2" \/ ~unique_artist_song(artist_song_orders, pending)
               THEN /\ last' = [req EXCEPT !.status = 500, !.created = ids]
                    /\ UNCHANGED artist_song_orders
               ELSE /\ artist_song_orders' = artist_song_orders \cup Range(pending)
                    /\ last' = [req EXCEPT !.status = 201, !.created = ids]
            /\ UNCHANGED <<artists, nextArtist, videos, nextVideo,
                           artist_video_orders, featured_music>>

\* --------------------------------------------------------------- edit_song
edit_song(song_id, artist_id, fault) ==
    LET req == [Response("edit_song", 0) EXCEPT !.child = {song_id}, !.artist = artist_id]
    IN
    /\ Idle
    /\ scope = "artist_song_orders"
    /\ UNCHANGED scope
    /\ IF song_id \notin DOMAIN songs
       THEN /\ last' = [req EXCEPT !.status = 404]
            /\ UNCHANGED db
       ELSE IF artist_id # {} /\ artist_id # {-1} /\ TheOne(artist_id) \notin artists
       THEN /\ last' = [req EXCEPT !.status = 400]
            /\ UNCHANGED db
       ELSE IF fault
       THEN /\ last' = [req EXCEPT !.status = 500]
            /\ UNCHANGED db
       ELSE /\ songs' = IF artist_id = {} THEN songs
                        ELSE IF artist_id = {-1} THEN [songs EXCEPT ![song_id] = {}]
                        ELSE [songs EXCEPT ![song_id] = artist_id]
            /\ last' = [req EXCEPT !.status = 200]
            /\ UNCHANGED <<artists, nextArtist, nextSong, videos, nextVideo,
                           artist_song_orders, artist_video_orders, featured_music>>

\* ------------------------------------------------------------- delete_song
\* ForeignKey('songs.id', ondelete='CASCADE') of artist_song_orders
cascade_song_orders(rows, gone) == {r \in rows : r.song_id \notin gone}

\* variant: featured_music.song_id without ondelete='CASCADE'
no_cascade_featured(rows, gone) == rows

\* ForeignKey('songs.id', ondelete='CASCADE') of featured_music
cascade_featured(rows, gone) == {r \in rows : r.song_id \notin gone}

delete_song(song_id, fault) ==
    LET req == [Response("delete_song", 0) EXCEPT !.child = {song_id}]
    IN
    /\ Idle
    /\ UNCHANGED scope
    /\ IF song_id \notin DOMAIN songs
       THEN /\ last' = [req EXCEPT !.status = 404]
            /\ UNCHANGED db
       ELSE IF fault
       THEN /\ last' = [req EXCEPT !.status = 500]
            /\ UNCHANGED db
       ELSE /\ songs' = [s \in DOMAIN songs \ {song_id} |-> songs[s]]
            /\ artist_song_orders' = cascade_song_orders(artist_song_orders, {song_id})
            /\ featured_music' = cascade_featured(featured_music, {song_id})
            /\ last' = [req EXCEPT !.status = 204, !.deleted.songs = {song_id},
                                   !.deleted.featured =
                                       {r.song_id : r \in featured_music} \cap {song_id}]
            /\ UNCHANGED <<artists, nextArtist, nextSong, videos, nextVideo,
                           artist_video_orders>>

\* ---------------------------------------------------- reorder_artist_songs
\* variant: the check also refuses an item whose position another item has
songs_not_owned_or_tied(artist_id, items) ==
    {i \in DOMAIN items :
        \/ ~(items[i].id \in DOMAIN songs /\ songs[items[i].id] = {artist_id})
        \/ \E j \in DOMAIN items : j # i /\ items[j].position = items[i].position}

songs_not_owned(artist_id, items) ==
    {i \in DOMAIN items :
        ~(items[i].id \in DOMAIN songs /\ songs[items[i].id] = {artist_id})}

RECURSIVE reorder_songs_loop(_, _, _, _)
reorder_songs_loop(artist_id, items, rows, pending) ==
    IF items = <<>> THEN [rows |-> rows, pending |-> pending]
    ELSE LET item == Head(items)
             found == {r \in rows : r.artist_id = artist_id /\ r.song_id = item.id}
         IN IF found # {}
            THEN LET order_entry == TheOne(found)
                 IN reorder_songs_loop(artist_id, Tail(items),
                        (rows \ {order_entry}) \cup
                            {[order_entry EXCEPT !.display_order = item.position]},
                        pending)
            ELSE reorder_songs_loop(artist_id, Tail(items), rows,
                        Append(pending, [artist_id |-> artist_id, song_id |-> item.id,
                                         display_order |-> item.position]))

\* variant: the else branch of the write loop builds the entry without db.add
reorder_songs_no_add(artist_id, items, fault) ==
    LET session == reorder_songs_loop(artist_id, items, artist_song_orders, <<>>)
    IN
    IF artist_id \notin artists
    THEN [status |-> 404, rows |-> artist_song_orders]
    ELSE IF songs_not_owned(artist_id, items) # {}
    THEN [status |-> 400, rows |-> artist_song_orders]
    ELSE IF fault
    THEN [status |-> 500, rows |-> artist_song_orders]
    ELSE [status |-> 200, rows |-> session.rows]

\* variant: the ownership check runs before the artist check
reorder_songs_items_first(artist_id, items, fault) ==
    LET session == reorder_songs_loop(artist_id, items, artist_song_orders, <<>>)
    IN
    IF songs_not_owned(artist_id, items) # {}
    THEN [status |-> 400, rows |-> artist_song_orders]
    ELSE IF artist_id \notin artists
    THEN [status |-> 404, rows |-> artist_song_orders]
    ELSE IF fault \/ ~unique_artist_song(session.rows, session.pending)
    THEN [status |-> 500, rows |-> artist_song_orders]
    ELSE [status |-> 200, rows |-> session.rows \cup Range(session.pending)]

\* variant: the request replaces the list of the artist, the entries of songs
\* it does not list are deleted
reorder_songs_replacing(artist_id, items, fault) ==
    LET session == reorder_songs_loop(artist_id, items, artist_song_orders, <<>>)
        listed == {items[i].id : i \in DOMAIN items}
    IN
    IF artist_id \notin artists
    THEN [status |-> 404, rows |-> artist_song_orders]
    ELSE IF songs_not_owned(artist_id, items) # {}
    THEN [status |-> 400, rows |-> artist_song_orders]
    ELSE IF fault \/ ~unique_artist_song(session.rows, session.pending)
    THEN [status |-> 500, rows |-> artist_song_orders]
    ELSE [status |-> 200,
          rows |-> {r \in session.rows \cup Range(session.pending) :
                       r.artist_id = artist_id => r.song_id \in listed}]

reorder_songs_outcome(artist_id, items, fault) ==
    LET session == reorder_songs_loop(artist_id, items, artist_song_orders, <<>>)
    IN
    IF artist_id \notin artists
    THEN [status |-> 404, rows |-> artist_song_orders]
    ELSE IF songs_not_owned(artist_id, items) # {}
    THEN [status |-> 400, rows |-> artist_song_orders]
    ELSE IF fault \/ ~unique_artist_song(session.rows, session.pending)
    THEN [status |-> 500, rows |-> artist_song_orders]
    ELSE [status |-> 200, rows |-> session.rows \cup Range(session.pending)]

reorder_artist_songs(artist_id, items, fault) ==
    LET outcome == reorder_songs_outcome(artist_id, items, fault)
    IN
    /\ Idle
    /\ scope = "artist_song_orders"
    /\ artist_song_orders' = outcome.rows
    /\ last' = [Response("reorder_artist_songs", outcome.status) EXCEPT
                   !.artist = {artist_id}, !.items = items]
    /\ UNCHANGED <<artists, nextArtist, songs, nextSong, videos, nextVideo,
                   artist_video_orders, featured_music, scope>>

\* --------------------------------------------------- add_to_featured_music
\* unique=True on featured_music.song_id
unique_featured(rows, pending) ==
    /\ \A i, j \in DOMAIN pending : (i # j) => pending[i].song_id # pending[j].song_id
    /\ \A i \in DOMAIN pending : \A r \in rows : r.song_id # pending[i].song_id

\* variant: no lookup of an existing featured entry before the insert
add_to_featured_music_unchecked(song_id, fault) ==
    LET req == [Response("add_to_featured_music", 0) EXCEPT !.child = {song_id}]
        featured_entry ==
            [song_id |-> song_id,
             position |-> next_position(max_position(FeaturedPositions))]
    IN
    /\ Idle
    /\ scope = "featured_music"
    /\ UNCHANGED scope
    /\ featured_entry.position <= MaxPos + 1
    /\ IF song_id \notin DOMAIN songs
       THEN /\ last' = [req EXCEPT !.status = 404]
            /\ UNCHANGED db
       ELSE IF fault \/ ~unique_featured(featured_music, <<featured_entry>>)
       THEN /\ last' = [req EXCEPT !.status = 500]
            /\ UNCHANGED db
       ELSE /\ featured_music' = featured_music \cup {featured_entry}
            /\ last' = [req EXCEPT !.status = 201,
                                   !.items = <<[id |-> song_id,
                                                position |-> featured_entry.position]>>]
            /\ UNCHANGED <<artists, nextArtist, songs, nextSong, videos, nextVideo,
                           artist_song_orders, artist_video_orders>>

add_to_featured_music(song_id, fault) ==
    LET req == [Response("add_to_featured_music", 0) EXCEPT !.child = {song_id}]
        existing == {r \in featured_music : r.song_id = song_id}
        featured_entry ==
            [song_id |-> song_id,
             position |-> next_position(max_position(FeaturedPositions))]
    IN
    /\ Idle
    /\ scope = "featured_music"
    /\ UNCHANGED scope
    /\ featured_entry.position <= MaxPos + 1
    /\ IF song_id \notin DOMAIN songs
       THEN /\ last' = [req EXCEPT !.status = 404]
            /\ UNCHANGED db
       ELSE IF existing # {}
       THEN /\ last' = [req EXCEPT !.status = 400]
            /\ UNCHANGED db
       ELSE IF fault \/ ~unique_featured(featured_music, <<featured_entry>>)
       THEN /\ last' = [req EXCEPT !.status = 500]
            /\ UNCHANGED db
       ELSE /\ featured_music' = featured_music \cup {featured_entry}
            /\ last' = [req EXCEPT !.status = 201,
                                   !.items = <<[id |-> song_id,
                                                position |-> featured_entry.position]>>]
            /\ UNCHANGED <<artists, nextArtist, songs, nextSong, videos, nextVideo,
                           artist_song_orders, artist_video_orders>>

\* ---------------------------------------------- remove_from_featured_music
\* variant: removing a song that is not featured is answered 204
remove_from_featured_music_silent(song_id, fault) ==
    LET req == [Response("remove_from_featured_music", 0) EXCEPT !.child = {song_id}]
        found == {r \in featured_music : r.song_id = song_id}
    IN
    /\ Idle
    /\ scope = "featured_music"
    /\ UNCHANGED scope
    /\ IF fault
       THEN /\ last' = [req EXCEPT !.status = 500]
            /\ UNCHANGED db
       ELSE /\ featured_music' = featured_music \ found
            /\ last' = [req EXCEPT !.status = 204]
            /\ UNCHANGED <<artists, nextArtist, songs, nextSong, videos, nextVideo,
                           artist_song_orders, artist_video_orders>>

remove_from_featured_music(song_id, fault) ==
    LET req == [Response("remove_from_featured_music", 0) EXCEPT !.child = {song_id}]
        found == {r \in featured_music : r.song_id = song_id}
    IN
    /\ Idle
    /\ scope = "featured_music"
    /\ UNCHANGED scope
    /\ IF found = {}
       THEN /\ last' = [req EXCEPT !.status = 404]
            /\ UNCHANGED db
       ELSE IF fault
       THEN /\ last' = [req EXCEPT !.status = 500]
            /\ UNCHANGED db
       ELSE /\ featured_music' = featured_music \ {TheOne(found)}
            /\ last' = [req EXCEPT !.status = 204]
            /\ UNCHANGED <<artists, nextArtist, songs, nextSong, videos, nextVideo,
                           artist_song_orders, artist_video_orders>>

\* -------------------------------------------------- reorder_featured_music
\* the loop: the rows as the session holds them, and whether a song_id that is
\* not featured stopped it
RECURSIVE reorder_featured_loop(_, _)
reorder_featured_loop(positions, rows) ==
    IF positions = <<>> THEN [rows |-> rows, missing |-> FALSE]
    ELSE LET item == Head(positions)
             found == {r \in rows : r.song_id = item.id}
         IN IF found = {}
            THEN [rows |-> rows, missing |-> TRUE]
            ELSE LET featured_entry == TheOne(found)
                 IN reorder_featured_loop(Tail(positions),
                        (rows \ {featured_entry}) \cup
                            {[featured_entry EXCEPT !.position = item.position]})

\* variant: the positions overwritten before the 404 reach the table
reorder_featured_partial(positions, fault) ==
    LET session == reorder_featured_loop(positions, featured_music)
    IN
    IF session.missing
    THEN [status |-> 404, rows |-> session.rows]
    ELSE IF fault
    THEN [status |-> 500, rows |-> featured_music]
    ELSE [status |-> 200, rows |-> session.rows]

\* a 404 is re-raised without rollback; the session is then closed unflushed
reorder_featured_outcome(positions, fault) ==
    LET session == reorder_featured_loop(positions, featured_music)
    IN
    IF session.missing
    THEN [status |-> 404, rows |-> featured_music]
    ELSE IF fault
    THEN [status |-> 500, rows |-> featured_music]
    ELSE [status |-> 200, rows |-> session.rows]

reorder_featured_music(positions, fault) ==
    LET outcome == reorder_featured_outcome(positions, fault)
    IN
    /\ Idle
    /\ scope = "featured_music"
    /\ featured_music' = outcome.rows
    /\ last' = [Response("reorder_featured_music", outcome.status) EXCEPT
                   !.items = positions]
    /\ UNCHANGED <<artists, nextArtist, songs, nextSong, videos, nextVideo,
                   artist_song_orders, artist_video_orders, scope>>

\* variant: the bulk deletes of the songs and videos are committed on their
\* own before the artist row is deleted
delete_artist_children_first(artist_id, fault) ==
    LET req == [Response("delete_artist", 0) EXCEPT !.artist = {artist_id}]
        songs_gone == {s \in DOMAIN songs : songs[s] = {artist_id}}
        videos_gone == {v \in DOMAIN videos : videos[v] = {artist_id}}
    IN
    /\ Idle
    /\ UNCHANGED scope
    /\ IF artist_id \notin artists
       THEN /\ last' = [req EXCEPT !.status = 404]
            /\ UNCHANGED db
       ELSE /\ songs' = [s \in DOMAIN songs \ songs_gone |-> songs[s]]
            /\ videos' = [v \in DOMAIN videos \ videos_gone |-> videos[v]]
            /\ featured_music' = cascade_featured(featured_music, songs_gone)
            /\ artist_song_orders' =
                  {r \in cascade_song_orders(artist_song_orders, songs_gone) :
                      fault \/ r.artist_id # artist_id}
            /\ artist_video_orders' =
                  {r \in cascade_video_orders(artist_video_orders, videos_gone) :
                      fault \/ r.artist_id # artist_id}
            /\ artists' = IF fault THEN artists ELSE artists \ {artist_id}
            /\ last' = [req EXCEPT !.status = IF fault THEN 500 ELSE 204,
                                   !.deleted.songs = songs_gone,
                                   !.deleted.videos = videos_gone,
                                   !.deleted.featured =
                                       {r.song_id : r \in featured_music} \cap songs_gone]
            /\ UNCHANGED <<nextArtist, nextSong, nextVideo>>

\* ----------------------------------------------------------- delete_artist
delete_artist(artist_id, fault) ==
    LET req == [Response("delete_artist", 0) EXCEPT !.artist = {artist_id}]
        songs_gone == {s \in DOMAIN songs : songs[s] = {artist_id}}
        videos_gone == {v \in DOMAIN videos : videos[v] = {artist_id}}
    IN
    /\ Idle
    /\ UNCHANGED scope
    /\ IF artist_id \notin artists
       THEN /\ last' = [req EXCEPT !.status = 404]
            /\ UNCHANGED db
       \* the two bulk DELETEs, the DELETE of the artist row and db.commit() run
       \* in the one transaction of the session: a failure of any of them ends
       \* the request before the commit
       ELSE IF fault
       THEN /\ last' = [req EXCEPT !.status = 500]
            /\ UNCHANGED db
       ELSE /\ songs' = [s \in DOMAIN songs \ songs_gone |-> songs[s]]
            /\ videos' = [v \in DOMAIN videos \ videos_gone |-> videos[v]]
            /\ featured_music' = cascade_featured(featured_music, songs_gone)
            \* ForeignKey('artists.id', ondelete='CASCADE') of both order tables
            /\ artist_song_orders' =
                  {r \in cascade_song_orders(artist_song_orders, songs_gone) :
                      r.artist_id # artist_id}
            /\ artist_video_orders' =
                  {r \in cascade_video_orders(artist_video_orders, videos_gone) :
                      r.artist_id # artist_id}
            /\ artists' = artists \ {artist_id}
            /\ last' = [req EXCEPT !.status = 204, !.deleted.songs = songs_gone,
                                   !.deleted.videos = videos_gone,
                                   !.deleted.featured =
                                       {r.song_id : r \in featured_music} \cap songs_gone]
            /\ UNCHANGED <<nextArtist, nextSong, nextVideo>>

\* -------------------------------------------------------- get_artist_by_id
\* outerjoin of the artist's children with their order entries under the artist
songs_query(artist_id) ==
    UNION {LET entries == {r \in artist_song_orders :
                              r.song_id = s /\ r.artist_id = artist_id}
           IN IF entries = {} THEN {[id |-> s, display_order |-> {}]}
              ELSE {[id |-> s, display_order |-> {r.display_order}] : r \in entries}
           : s \in {x \in DOMAIN songs : songs[x] = {artist_id}}}

videos_query(artist_id) ==
    UNION {LET entries == {r \in artist_video_orders :
                              r.video_id = v /\ r.artist_id = artist_id}
           IN IF entries = {} THEN {[id |-> v, display_order |-> {}]}
              ELSE {[id |-> v, display_order |-> {r.display_order}] : r \in entries}
           : v \in {x \in DOMAIN videos : videos[x] = {artist_id}}}

\* variant: ORDER BY display_order ASC where NULL sorts before every value
asc_nulls_first(x, y) == x = {} \/ (y # {} /\ TheOne(x) <= TheOne(y))

\* ORDER BY display_order ASC on PostgreSQL: NULL sorts after every value
asc_nulls_last(x, y) == y = {} \/ (x # {} /\ TheOne(x) <= TheOne(y))

\* the orders in which the database may return the rows: ties in any order
order_by(rows) ==
    {out \in [1..Cardinality(rows) -> rows] :
        /\ \A i, j \in DOMAIN out : (i # j) => out[i] # out[j]
        /\ \A i, j \in DOMAIN out :
              (i < j) => asc_nulls_last(out[i].display_order, out[j].display_order)}

get_artist_by_id(artist_id) ==
    LET req == [Response("get_artist_by_id", 0) EXCEPT !.artist = {artist_id}]
    IN
    /\ Idle
    /\ UNCHANGED scope
    /\ IF artist_id \notin artists
       THEN last' = [req EXCEPT !.status = 404]
       ELSE \E ss \in order_by(songs_query(artist_id)),
               vs \in order_by(videos_query(artist_id)) :
               last' = [req EXCEPT !.status = 200, !.songs = ss, !.videos = vs]
    /\ UNCHANGED db

\* --------------------------------------------------------------------- Next
Next ==
    \/ get_db
    \/ \E fault \in BOOLEAN : add_artist(fault)
    \/ \E a \in ArtistIds, fault \in BOOLEAN : delete_artist(a, fault)
    \/ \E a \in ArtistIds : get_artist_by_id(a)
    \/ \E batch \in SeqsUpTo(OptArtist, MaxBatch), cover_arts \in 1..MaxBatch,
          failAt \in {"none", "upload", "commit1", "commit2"} :
          add_song(batch, cover_arts, failAt)
    \/ \E s \in SongIds, a \in OptArtistId, fault \in BOOLEAN : edit_song(s, a, fault)
    \/ \E s \in SongIds, fault \in BOOLEAN : delete_song(s, fault)
    \/ \E a \in ArtistIds, items \in ReorderRequest, fault \in BOOLEAN :
          reorder_artist_songs(a, items, fault)
    \/ \E batch \in SeqsUpTo(ArtistIds, MaxBatch),
          failAt \in {"none", "commit1", "commit2"} : add_videos(batch, failAt)
    \/ \E v \in VideoIds, a \in OptArtistId, fault \in BOOLEAN : edit_video(v, a, fault)
    \/ \E v \in VideoIds, fault \in BOOLEAN : delete_video(v, fault)
    \/ \E a \in ArtistIds, items \in ReorderRequest, fault \in BOOLEAN :
          reorder_artist_videos(a, items, fault)
    \/ \E s \in SongIds, fault \in BOOLEAN : add_to_featured_music(s, fault)
    \/ \E s \in SongIds, fault \in BOOLEAN : remove_from_featured_music(s, fault)
    \/ \E positions \in ReorderRequest, fault \in BOOLEAN :
          reorder_featured_music(positions, fault)

Spec == Init /\ [][Next]_vars


\* ------------------------------------------------------ concurrent requests
\* Two requests served at the same time, each on its own session, one
\* statement per step; a reorder is PATCH /{artist_id}/admin-reorder-songs for
\* artist 1.  `last` holds the requests being answered: their sessions, the
\* order in which they committed, and the rows of artist_song_orders before
\* the first of them.
\* PostgreSQL runs the statements at READ COMMITTED: every SELECT sees what is
\* committed at that moment.  The UPDATEs and INSERTs of a session are sent by
\* the flush inside db.commit() and hold their row locks until the COMMIT, so
\* flush and COMMIT are one step.
Sessions == 1..2

\* a session before its request: no object loaded, nothing pending
NoSession ==
    [pc |-> "begin", op |-> "none", items |-> <<>>, next |-> 1, identity |-> {},
     pending |-> <<>>, child |-> {}, artist |-> {}, batch |-> <<>>, created |-> <<>>,
     maxpos |-> <<>>, songs |-> {}, fault |-> FALSE, status |-> 0]

InitConcurrent ==
    /\ artists = {1, 2}
    /\ nextArtist = 3
    /\ videos = [v \in {} |-> {}]
    /\ nextVideo = 1
    /\ artist_video_orders = {}
    /\ featured_music = {}
    /\ scope \in {"artist_song_orders", "featured_music"}
    /\ \/ /\ songs = (1 :> {1}) @@ (2 :> {1})
          /\ nextSong = 3
          /\ artist_song_orders \in
                {{[artist_id |-> 1, song_id |-> 1, display_order |-> 1],
                  [artist_id |-> 1, song_id |-> 2, display_order |-> 2]},
                 {[artist_id |-> 1, song_id |-> 1, display_order |-> 1]}}
       \/ /\ songs = (1 :> {1}) @@ (2 :> {2})
          /\ nextSong = 3
          /\ artist_song_orders =
                {[artist_id |-> 1, song_id |-> 1, display_order |-> 1],
                 [artist_id |-> 2, song_id |-> 2, display_order |-> 1]}
       \/ /\ songs = [s \in {} |-> {}]
          /\ nextSong = 1
          /\ artist_song_orders = {}
    /\ last = [op |-> "concurrent", session |-> [t \in Sessions |-> NoSession],
               commits |-> <<>>, initial |-> artist_song_orders]

\* the request arrives: artist check and ownership check
reorder_songs_begin(t, items) ==
    LET session == last.session[t]
    IN
    /\ last.op = "concurrent"
    /\ scope = "artist_song_orders"
    /\ session.pc = "begin"
    /\ last' = [last EXCEPT !.session[t] =
                   IF songs_not_owned(1, items) # {}
                   THEN [session EXCEPT !.pc = "closed", !.op = "reorder_artist_songs",
                                        !.items = items, !.status = 400]
                   ELSE [session EXCEPT !.pc = "loop", !.op = "reorder_artist_songs",
                                        !.items = items]]
    /\ UNCHANGED <<db, scope>>

\* one pass of the write loop: SELECT the order entry of the next item.  A row
\* the session has loaded before stays as the session holds it; a row found is
\* loaded and its display_order assigned; no row found adds a new entry.
reorder_songs_query(t) ==
    LET session == last.session[t]
    IN
    /\ last.op = "concurrent"
    /\ session.pc = "loop"
    /\ session.next <= Len(session.items)
    /\ LET item == session.items[session.next]
           found == {r \in artist_song_orders : r.artist_id = 1 /\ r.song_id = item.id}
           held == {o \in session.identity : o.song_id = item.id}
       IN last' = [last EXCEPT !.session[t] =
                      IF found = {}
                      THEN [session EXCEPT
                               !.next = session.next + 1,
                               !.pending = Append(session.pending,
                                   [artist_id |-> 1, song_id |-> item.id,
                                    display_order |-> item.position])]
                      ELSE IF held # {}
                      THEN [session EXCEPT
                               !.next = session.next + 1,
                               !.identity = (session.identity \ held) \cup
                                   {[o EXCEPT !.current = item.position] : o \in held}]
                      ELSE [session EXCEPT
                               !.next = session.next + 1,
                               !.identity = session.identity \cup
                                   {[song_id |-> item.id,
                                     loaded |-> TheOne(found).display_order,
                                     current |-> item.position]}]]
    /\ UNCHANGED <<db, scope>>

\* the flush of db.commit(): an UPDATE for every loaded entry whose display_order
\* differs from the loaded one (the unit of work sends no UPDATE for an
\* attribute without net change), an INSERT for every new entry
flush_songs(rows, session) ==
    {r \in rows :
        ~\E o \in session.identity :
            r.artist_id = 1 /\ r.song_id = o.song_id /\ o.current # o.loaded}
    \cup {[artist_id |-> 1, song_id |-> o.song_id, display_order |-> o.current] :
             o \in {x \in session.identity :
                       /\ x.current # x.loaded
                       /\ \E r \in rows : r.artist_id = 1 /\ r.song_id = x.song_id}}
    \cup Range(session.pending)

reorder_songs_commit(t, fault) ==
    LET session == last.session[t]
    IN
    /\ last.op = "concurrent"
    /\ session.pc = "loop"
    /\ session.next > Len(session.items)
    /\ IF \/ fault
          \/ ~unique_artist_song(artist_song_orders, session.pending)
          \* an INSERT for a song deleted meanwhile fails on the foreign key
          \/ \E i \in DOMAIN session.pending :
                session.pending[i].song_id \notin DOMAIN songs
          \* an UPDATE of an entry deleted meanwhile matches no row
          \/ \E o \in session.identity :
                /\ o.current # o.loaded
                /\ ~\E r \in artist_song_orders :
                      r.artist_id = 1 /\ r.song_id = o.song_id
       THEN /\ last' = [last EXCEPT !.session[t] =
                           [session EXCEPT !.pc = "closed", !.status = 500,
                                           !.fault = fault]]
            /\ UNCHANGED artist_song_orders
       ELSE /\ artist_song_orders' = flush_songs(artist_song_orders, session)
            /\ last' = [last EXCEPT !.session[t] =
                           [session EXCEPT !.pc = "closed", !.status = 200],
                        !.commits = Append(last.commits, t)]
    /\ UNCHANGED <<artists, nextArtist, songs, nextSong, videos, nextVideo,
                   artist_video_orders, featured_music, scope>>

\* add_to_featured_music, one statement per step: the song and the existing
\* entry are looked up,
add_to_featured_begin(t, song_id) ==
    LET session == [last.session[t] EXCEPT !.op = "add_to_featured_music",
                                           !.child = {song_id}]
    IN
    /\ last.op = "concurrent"
    /\ scope = "featured_music"
    /\ last.session[t].pc = "begin"
    /\ last' = [last EXCEPT !.session[t] =
                   IF song_id \notin DOMAIN songs
                   THEN [session EXCEPT !.pc = "closed", !.status = 404]
                   ELSE IF \E r \in featured_music : r.song_id = song_id
                   THEN [session EXCEPT !.pc = "closed", !.status = 400]
                   ELSE [session EXCEPT !.pc = "max"]]
    /\ UNCHANGED <<db, scope>>

\* then SELECT max(position) is read,
add_to_featured_max(t) ==
    LET session == last.session[t]
    IN
    /\ last.op = "concurrent"
    /\ session.pc = "max"
    /\ last' = [last EXCEPT !.session[t] =
                   [session EXCEPT !.pc = "insert",
                                   !.maxpos = <<max_position(FeaturedPositions)>>]]
    /\ UNCHANGED <<db, scope>>

\* then db.commit() sends the INSERT: it fails on the unique song_id when the
\* song has been featured meanwhile and on the foreign key when it is gone
add_to_featured_commit(t, fault) ==
    LET session == last.session[t]
        featured_entry == [song_id |-> TheOne(session.child),
                           position |-> next_position(session.maxpos[1])]
    IN
    /\ last.op = "concurrent"
    /\ session.pc = "insert"
    /\ IF \/ fault
          \/ ~unique_featured(featured_music, <<featured_entry>>)
          \/ featured_entry.song_id \notin DOMAIN songs
       THEN /\ last' = [last EXCEPT !.session[t] =
                           [session EXCEPT !.pc = "closed", !.status = 500,
                                           !.fault = fault]]
            /\ UNCHANGED featured_music
       ELSE /\ featured_music' = featured_music \cup {featured_entry}
            /\ last' = [last EXCEPT !.session[t] =
                           [session EXCEPT !.pc = "closed", !.status = 201,
                                           !.pending = <<featured_entry>>],
                        !.commits = Append(last.commits, t)]
    /\ UNCHANGED <<artists, nextArtist, songs, nextSong, videos, nextVideo,
                   artist_song_orders, artist_video_orders, scope>>

\* add_song, one statement per step: the artists of the batch are looked up,
add_song_begin(t, batch) ==
    LET session == [last.session[t] EXCEPT !.op = "add_song", !.batch = batch]
    IN
    /\ last.op = "concurrent"
    /\ scope = "artist_song_orders"
    /\ last.session[t].pc = "begin"
    /\ \A u \in Sessions \ {t} :
          Children + Len(batch)
             + (IF last.session[u].pc = "commit1" THEN Len(last.session[u].batch) ELSE 0)
             <= MaxChildren
    /\ last' = [last EXCEPT !.session[t] =
                   IF batch = <<>> \/ songs_bad_artist(batch) # {}
                   THEN [session EXCEPT !.pc = "closed", !.status = 400]
                   ELSE [session EXCEPT !.pc = "commit1"]]
    /\ UNCHANGED <<db, scope>>

\* the first db.commit() stores the songs of the batch,
add_song_commit1(t, fault) ==
    LET session == last.session[t]
        ids == [i \in DOMAIN session.batch |-> nextSong + i - 1]
    IN
    /\ last.op = "concurrent"
    /\ session.pc = "commit1"
    /\ IF fault
       THEN /\ last' = [last EXCEPT !.session[t] =
                           [session EXCEPT !.pc = "closed", !.status = 500]]
            /\ UNCHANGED <<songs, nextSong>>
       ELSE /\ songs' = [s \in DOMAIN songs \cup Range(ids) |->
                            IF s \in DOMAIN songs THEN songs[s]
                            ELSE session.batch[s - nextSong + 1]]
            /\ nextSong' = nextSong + Len(session.batch)
            /\ last' = [last EXCEPT !.session[t] =
                           [session EXCEPT !.pc = "allocate", !.created = ids]]
    /\ UNCHANGED <<artists, nextArtist, videos, nextVideo, artist_song_orders,
                   artist_video_orders, featured_music, scope>>

\* one pass of the order-entry loop: SELECT max(display_order) of the artist
\* and add the entry of the next created song to the session,
add_song_max(t) ==
    LET session == last.session[t]
        a == TheOne(session.batch[session.next])
        maxpos == max_position(SongPositions(a))
    IN
    /\ last.op = "concurrent"
    /\ session.pc = "allocate"
    /\ session.next <= Len(session.batch)
    /\ last' = [last EXCEPT !.session[t] =
                   [session EXCEPT
                       !.next = session.next + 1,
                       !.maxpos = Append(session.maxpos, maxpos),
                       !.pending = Append(session.pending,
                           [artist_id |-> a, song_id |-> session.created[session.next],
                            display_order |-> next_position(maxpos)])]]
    /\ UNCHANGED <<db, scope>>

\* the second db.commit() sends the INSERTs of the order entries: they fail on
\* unique_artist_song and on the foreign key of a song deleted meanwhile
add_song_commit2(t, fault) ==
    LET session == last.session[t]
    IN
    /\ last.op = "concurrent"
    /\ session.pc = "allocate"
    /\ session.next > Len(session.batch)
    /\ IF \/ fault
          \/ ~unique_artist_song(artist_song_orders, session.pending)
          \/ \E i \in DOMAIN session.pending :
                session.pending[i].song_id \notin DOMAIN songs
       THEN /\ last' = [last EXCEPT !.session[t] =
                           [session EXCEPT !.pc = "closed", !.status = 500]]
            /\ UNCHANGED artist_song_orders
       ELSE /\ artist_song_orders' = artist_song_orders \cup Range(session.pending)
            /\ last' = [last EXCEPT !.session[t] =
                           [session EXCEPT !.pc = "closed", !.status = 201],
                        !.commits = Append(last.commits, t)]
    /\ UNCHANGED <<artists, nextArtist, songs, nextSong, videos, nextVideo,
                   artist_video_orders, featured_music, scope>>

\* edit_song, one statement per step: the song and the artist are looked up,
edit_song_begin(t, song_id, artist_id) ==
    LET session == [last.session[t] EXCEPT !.op = "edit_song", !.child = {song_id},
                                           !.artist = artist_id]
    IN
    /\ last.op = "concurrent"
    /\ scope = "artist_song_orders"
    /\ last.session[t].pc = "begin"
    /\ last' = [last EXCEPT !.session[t] =
                   IF song_id \notin DOMAIN songs
                   THEN [session EXCEPT !.pc = "closed", !.status = 404]
                   ELSE IF /\ artist_id # {} /\ artist_id # {-1}
                           /\ TheOne(artist_id) \notin artists
                   THEN [session EXCEPT !.pc = "closed", !.status = 400]
                   ELSE [session EXCEPT !.pc = "edit",
                            !.identity = {[song_id |-> song_id, loaded |-> songs[song_id],
                                           current |->
                                               IF artist_id = {} THEN songs[song_id]
                                               ELSE IF artist_id = {-1} THEN {}
                                               ELSE artist_id]}]]
    /\ UNCHANGED <<db, scope>>

\* then db.commit() sends the UPDATE of the song, which matches no row when the
\* song has been deleted meanwhile, and db.refresh(song) reads the row back,
\* which fails when it is gone
edit_song_commit(t, fault) ==
    LET session == last.session[t]
        song == TheOne(session.identity)
    IN
    /\ last.op = "concurrent"
    /\ session.pc = "edit"
    /\ IF fault \/ song.song_id \notin DOMAIN songs
       THEN /\ last' = [last EXCEPT !.session[t] =
                           [session EXCEPT !.pc = "closed", !.status = 500,
                                           !.fault = fault]]
            /\ UNCHANGED songs
       ELSE /\ songs' = IF song.current # song.loaded
                        THEN [songs EXCEPT ![song.song_id] = song.current]
                        ELSE songs
            /\ last' = [last EXCEPT !.session[t] =
                           [session EXCEPT !.pc = "closed", !.status = 200],
                        !.commits = Append(last.commits, t)]
    /\ UNCHANGED <<artists, nextArtist, nextSong, videos, nextVideo,
                   artist_song_orders, artist_video_orders, featured_music, scope>>

\* delete_song, one statement per step: the song is looked up,
delete_song_begin(t, song_id) ==
    LET session == [last.session[t] EXCEPT !.op = "delete_song", !.child = {song_id}]
    IN
    /\ last.op = "concurrent"
    /\ last.session[t].pc = "begin"
    /\ last' = [last EXCEPT !.session[t] =
                   IF song_id \notin DOMAIN songs
                   THEN [session EXCEPT !.pc = "closed", !.status = 404]
                   ELSE [session EXCEPT !.pc = "delete"]]
    /\ UNCHANGED <<db, scope>>

\* then db.commit() sends the DELETE, which cascades to the order entries and
\* the featured entry of the song
delete_song_commit(t, fault) ==
    LET session == last.session[t]
    IN
    /\ last.op = "concurrent"
    /\ session.pc = "delete"
    /\ IF fault
       THEN /\ last' = [last EXCEPT !.session[t] =
                           [session EXCEPT !.pc = "closed", !.status = 500,
                                           !.fault = fault]]
            /\ UNCHANGED <<songs, artist_song_orders, featured_music>>
       ELSE /\ songs' = [s \in DOMAIN songs \ session.child |-> songs[s]]
            /\ artist_song_orders' =
                  cascade_song_orders(artist_song_orders, session.child)
            /\ featured_music' = cascade_featured(featured_music, session.child)
            /\ last' = [last EXCEPT !.session[t] =
                           [session EXCEPT !.pc = "closed", !.status = 204],
                        !.commits = Append(last.commits, t)]
    /\ UNCHANGED <<artists, nextArtist, nextSong, videos, nextVideo,
                   artist_video_orders, scope>>

\* get_artist_by_id while other requests run: the songs of the artist are read
\* with their order entries in one statement, which sees what is committed
get_artist_songs(t, artist_id) ==
    LET session == [last.session[t] EXCEPT !.op = "get_artist_by_id",
                                           !.artist = {artist_id}, !.pc = "closed"]
    IN
    /\ last.op = "concurrent"
    /\ scope = "artist_song_orders"
    /\ last.session[t].pc = "begin"
    /\ last' = [last EXCEPT !.session[t] =
                   IF artist_id \notin artists
                   THEN [session EXCEPT !.status = 404]
                   ELSE [session EXCEPT !.status = 200,
                                        !.songs = songs_query(artist_id)]]
    /\ UNCHANGED <<db, scope>>

NextConcurrent ==
    \/ \E t \in Sessions, items \in ReorderRequest : reorder_songs_begin(t, items)
    \/ \E t \in Sessions : reorder_songs_query(t)
    \/ \E t \in Sessions, fault \in BOOLEAN : reorder_songs_commit(t, fault)
    \/ \E t \in Sessions, s \in SongIds : add_to_featured_begin(t, s)
    \/ \E t \in Sessions : add_to_featured_max(t)
    \/ \E t \in Sessions, fault \in BOOLEAN : add_to_featured_commit(t, fault)
    \/ \E t \in Sessions, batch \in SeqsUpTo(OptArtist, MaxBatch) : add_song_begin(t, batch)
    \/ \E t \in Sessions, fault \in BOOLEAN : add_song_commit1(t, fault)
    \/ \E t \in Sessions : add_song_max(t)
    \/ \E t \in Sessions, fault \in BOOLEAN : add_song_commit2(t, fault)
    \/ \E t \in Sessions, s \in SongIds, a \in OptArtistId : edit_song_begin(t, s, a)
    \/ \E t \in Sessions, fault \in BOOLEAN : edit_song_commit(t, fault)
    \/ \E t \in Sessions, s \in SongIds : delete_song_begin(t, s)
    \/ \E t \in Sessions, fault \in BOOLEAN : delete_song_commit(t, fault)
    \/ \E t \in Sessions, a \in ArtistIds : get_artist_songs(t, a)

SpecConcurrent == InitConcurrent /\ [][NextConcurrent]_vars

\* ============================================================== properties

\* C1: in each of the three order relations no parent scope ever holds two
\* stored entries for the same child: at most one entry per
\* (artist_id, song_id), per (artist_id, video_id) and per featured song_id.
C1_OneEntryPerChild ==
    /\ \A r1, r2 \in artist_song_orders :
          (r1.artist_id = r2.artist_id /\ r1.song_id = r2.song_id) => r1 = r2
    /\ \A r1, r2 \in artist_video_orders :
          (r1.artist_id = r2.artist_id /\ r1.video_id = r2.video_id) => r1 = r2
    /\ \A r1, r2 \in featured_music : (r1.song_id = r2.song_id) => r1 = r2

\* a reorder that names one video twice with two positions has succeeded and
\* the video has its entry under the artist
C1_Witness ==
    /\ last.op = "reorder_artist_videos"
    /\ last.status = 200
    /\ Len(last.items) = 2
    /\ last.items[1].id = last.items[2].id
    /\ last.items[1].position # last.items[2].position
    /\ \E r \in artist_video_orders :
          r.artist_id \in last.artist /\ r.video_id = last.items[1].id

\* C2: in every stored state the positions of the order entries within one
\* parent scope (one artist's songs, one artist's videos, the featured list)
\* are pairwise distinct.
C2_DistinctPositions ==
    /\ \A r1, r2 \in artist_song_orders :
          (r1.artist_id = r2.artist_id /\ r1 # r2) =>
              r1.display_order # r2.display_order
    /\ \A r1, r2 \in artist_video_orders :
          (r1.artist_id = r2.artist_id /\ r1 # r2) =>
              r1.display_order # r2.display_order
    /\ \A r1, r2 \in featured_music : (r1 # r2) => r1.position # r2.position

C4_ReorderIdempotent ==
    /\ (last.op = "reorder_artist_songs" /\ last.status = 200) =>
          reorder_songs_outcome(TheOne(last.artist), last.items, FALSE)
              = [status |-> 200, rows |-> artist_song_orders]
    /\ (last.op = "reorder_artist_videos" /\ last.status = 200) =>
          reorder_videos_outcome(TheOne(last.artist), last.items, FALSE)
              = [status |-> 200, rows |-> artist_video_orders]
    /\ (last.op = "reorder_featured_music" /\ last.status = 200) =>
          reorder_featured_outcome(last.items, FALSE)
              = [status |-> 200, rows |-> featured_music]

\* a reorder of two songs of the artist to two positions has succeeded
C4_Witness ==
    /\ last.op = "reorder_artist_songs"
    /\ last.status = 200
    /\ Len(last.items) = 2
    /\ last.items[1].position # last.items[2].position
    /\ \A i \in 1..2 :
          [artist_id |-> TheOne(last.artist), song_id |-> last.items[i].id,
           display_order |-> last.items[i].position] \in artist_song_orders

C6_CascadeOnDelete ==
    [][/\ (last'.op = "delete_artist" /\ last'.status = 204) =>
             /\ \A r \in artist_song_orders' : r.artist_id \notin last'.artist
             /\ \A r \in artist_video_orders' : r.artist_id \notin last'.artist
             /\ \A s \in DOMAIN songs :
                   (songs[s] = last'.artist) =>
                       /\ s \notin DOMAIN songs'
                       /\ \A r \in featured_music' : r.song_id # s
             /\ \A v \in DOMAIN videos :
                   (videos[v] = last'.artist) => v \notin DOMAIN videos'
       /\ (last'.op = "delete_song" /\ last'.status = 204) =>
             /\ \A r \in artist_song_orders' : r.song_id \notin last'.child
             /\ \A r \in featured_music' : r.song_id \notin last'.child
       /\ (last'.op = "delete_video" /\ last'.status = 204) =>
             \A r \in artist_video_orders' : r.video_id \notin last'.child
      ]_vars

\* Scenario E: an artist with a song that was featured and a video was deleted
C6_Witness ==
    /\ last.op = "delete_artist"
    /\ last.status = 204
    /\ last.deleted.songs # {}
    /\ last.deleted.featured # {}
    /\ last.deleted.videos # {}

\* C7: in every stored state each artist-song / artist-video order entry
\* (A, c) refers to a child c that exists and whose own artist_id is A.
C7_EntryBelongsToParent ==
    /\ \A r \in artist_song_orders :
          r.song_id \in DOMAIN songs /\ songs[r.song_id] = {r.artist_id}
    /\ \A r \in artist_video_orders :
          r.video_id \in DOMAIN videos /\ videos[r.video_id] = {r.artist_id}

\* C8: when add_song / add_videos is answered 500, none of the child rows of
\* the batch and none of their order entries are stored.
C8_AttachAtomicWithCreate ==
    /\ (last.op = "add_song" /\ last.status = 500) =>
          \A i \in DOMAIN last.created :
             /\ last.created[i] \notin DOMAIN songs
             /\ \A r \in artist_song_orders : r.song_id # last.created[i]
    /\ (last.op = "add_videos" /\ last.status = 500) =>
          \A i \in DOMAIN last.created :
             /\ last.created[i] \notin DOMAIN videos
             /\ \A r \in artist_video_orders : r.video_id # last.created[i]

\* C9: after a successful reorder_artist_songs / reorder_artist_videos whose
\* items have pairwise distinct child ids, every listed child has exactly one
\* order entry under the artist, with the position listed for it.
C9_ReorderStoresListedPositions ==
    /\ (/\ last.op = "reorder_artist_songs"
        /\ last.status = 200
        /\ \A i, j \in DOMAIN last.items :
              (i # j) => last.items[i].id # last.items[j].id) =>
          \A i \in DOMAIN last.items :
             {r \in artist_song_orders :
                 r.artist_id \in last.artist /\ r.song_id = last.items[i].id} =
             {[artist_id |-> TheOne(last.artist), song_id |-> last.items[i].id,
               display_order |-> last.items[i].position]}
    /\ (/\ last.op = "reorder_artist_videos"
        /\ last.status = 200
        /\ \A i, j \in DOMAIN last.items :
              (i # j) => last.items[i].id # last.items[j].id) =>
          \A i \in DOMAIN last.items :
             {r \in artist_video_orders :
                 r.artist_id \in last.artist /\ r.video_id = last.items[i].id} =
             {[artist_id |-> TheOne(last.artist), video_id |-> last.items[i].id,
               display_order |-> last.items[i].position]}

\* a reorder of two different songs has succeeded, one of them sent to
\* position 0
C9_Witness ==
    /\ last.op = "reorder_artist_songs"
    /\ last.status = 200
    /\ Len(last.items) = 2
    /\ last.items[1].id # last.items[2].id
    /\ last.items[1].position = 0

C12_NoPartialReorder ==
    [][(/\ Idle
        /\ last'.op \in {"reorder_artist_songs", "reorder_artist_videos",
                         "reorder_featured_music"}
        /\ last'.status # 200)
       => UNCHANGED db]_vars

\* a featured reorder was answered 404 at its second item after its first item
\* had asked for a position other than the stored one
C12_Witness ==
    /\ last.op = "reorder_featured_music"
    /\ last.status = 404
    /\ Len(last.items) = 2
    /\ \E r \in featured_music :
          r.song_id = last.items[1].id /\ r.position # last.items[1].position
    /\ \A r \in featured_music : r.song_id # last.items[2].id

C14_EditKeepsOrderEntries ==
    [][/\ (last'.op \in {"edit_song", "edit_video"}) =>
             UNCHANGED <<artist_song_orders, artist_video_orders, featured_music>>
       /\ (\/ \E r \in artist_song_orders, q \in artist_song_orders' :
                 /\ r.artist_id = q.artist_id /\ r.song_id = q.song_id
                 /\ r.display_order # q.display_order
           \/ \E r \in artist_video_orders, q \in artist_video_orders' :
                 /\ r.artist_id = q.artist_id /\ r.video_id = q.video_id
                 /\ r.display_order # q.display_order
           \/ \E r \in featured_music, q \in featured_music' :
                 r.song_id = q.song_id /\ r.position # q.position)
          => last'.op \in {"reorder_artist_songs", "reorder_artist_videos",
                           "reorder_featured_music"}]_vars

\* a video that has an order entry was moved to another artist by edit_video
C14_Witness ==
    /\ last.op = "edit_video"
    /\ last.status = 200
    /\ \E r \in artist_video_orders :
          /\ r.video_id \in last.child
          /\ r.artist_id \notin last.artist
          /\ videos[r.video_id] = last.artist

\* C15: whenever a successful request leaves a song or video attached to an
\* artist it was not attached to before (a created child, or an edited child
\* whose artist_id changed to an artist), exactly one order entry for
\* (artist, child) is stored after the request, at the allocator's next
\* position of that artist.
C15_AutoAttach ==
    [][(last'.status \in {200, 201}) =>
          /\ \A s \in DOMAIN songs' :
                (songs'[s] # {} /\ (s \notin DOMAIN songs \/ songs[s] # songs'[s])) =>
                    LET a == TheOne(songs'[s])
                        before == {r.display_order :
                                      r \in {x \in artist_song_orders : x.artist_id = a}}
                    IN {r \in artist_song_orders' : r.artist_id = a /\ r.song_id = s} =
                          {[artist_id |-> a, song_id |-> s,
                            display_order |->
                                IF before = {} THEN 1
                                ELSE (CHOOSE m \in before : \A p \in before : p <= m) + 1]}
          /\ \A v \in DOMAIN videos' :
                (videos'[v] # {} /\ (v \notin DOMAIN videos \/ videos[v] # videos'[v])) =>
                    LET a == TheOne(videos'[v])
                        before == {r.display_order :
                                      r \in {x \in artist_video_orders : x.artist_id = a}}
                    IN {r \in artist_video_orders' : r.artist_id = a /\ r.video_id = v} =
                          {[artist_id |-> a, video_id |-> v,
                            display_order |->
                                IF before = {} THEN 1
                                ELSE (CHOOSE m \in before : \A p \in before : p <= m) + 1]}
      ]_vars

\* C16: a reorder of an existing artist whose items name pairwise different
\* children of the artist and give two of them the same position is accepted:
\* without a storage error it is answered 200, and then every listed child is
\* stored with the position listed for it, the two with the same one.  The
\* same for a reorder of the featured list naming featured songs.
C16_DuplicatePositionsAccepted ==
    [][/\ (/\ Idle
           /\ last'.op = "reorder_artist_songs"
           /\ last'.artist \subseteq artists
           /\ \A i \in DOMAIN last'.items :
                 /\ last'.items[i].id \in DOMAIN songs
                 /\ songs[last'.items[i].id] = last'.artist
           /\ \A i, j \in DOMAIN last'.items :
                 (i # j) => last'.items[i].id # last'.items[j].id
           /\ \E i, j \in DOMAIN last'.items :
                 i # j /\ last'.items[i].position = last'.items[j].position)
          => /\ reorder_songs_outcome(TheOne(last'.artist), last'.items, FALSE).status = 200
             /\ last'.status \in {200, 500}
             /\ (last'.status = 200) =>
                   \A i \in DOMAIN last'.items :
                      [artist_id |-> TheOne(last'.artist), song_id |-> last'.items[i].id,
                       display_order |-> last'.items[i].position] \in artist_song_orders'
       /\ (/\ Idle
           /\ last'.op = "reorder_artist_videos"
           /\ last'.artist \subseteq artists
           /\ \A i \in DOMAIN last'.items :
                 /\ last'.items[i].id \in DOMAIN videos
                 /\ videos[last'.items[i].id] = last'.artist
           /\ \A i, j \in DOMAIN last'.items :
                 (i # j) => last'.items[i].id # last'.items[j].id
           /\ \E i, j \in DOMAIN last'.items :
                 i # j /\ last'.items[i].position = last'.items[j].position)
          => /\ reorder_videos_outcome(TheOne(last'.artist), last'.items, FALSE).status = 200
             /\ last'.status \in {200, 500}
             /\ (last'.status = 200) =>
                   \A i \in DOMAIN last'.items :
                      [artist_id |-> TheOne(last'.artist), video_id |-> last'.items[i].id,
                       display_order |-> last'.items[i].position] \in artist_video_orders'
       /\ (/\ Idle
           /\ last'.op = "reorder_featured_music"
           /\ \A i \in DOMAIN last'.items :
                 \E r \in featured_music : r.song_id = last'.items[i].id
           /\ \A i, j \in DOMAIN last'.items :
                 (i # j) => last'.items[i].id # last'.items[j].id
           /\ \E i, j \in DOMAIN last'.items :
                 i # j /\ last'.items[i].position = last'.items[j].position)
          => /\ reorder_featured_outcome(last'.items, FALSE).status = 200
             /\ last'.status \in {200, 500}
             /\ (last'.status = 200) =>
                   \A i \in DOMAIN last'.items :
                      [song_id |-> last'.items[i].id,
                       position |-> last'.items[i].position] \in featured_music'
      ]_vars

\* two songs of an artist were sent to one position by a reorder answered 200
\* and both are stored there
C16_Witness ==
    /\ last.op = "reorder_artist_songs"
    /\ last.status = 200
    /\ Len(last.items) = 2
    /\ last.items[1].id # last.items[2].id
    /\ last.items[1].position = last.items[2].position
    /\ \A i \in 1..2 :
          [artist_id |-> TheOne(last.artist), song_id |-> last.items[i].id,
           display_order |-> last.items[i].position] \in artist_song_orders

\* C17: every position stored in any of the three order relations is a
\* positive integer (>= 1).
C17_PositivePositions ==
    /\ \A r \in artist_song_orders : r.display_order >= 1
    /\ \A r \in artist_video_orders : r.display_order >= 1
    /\ \A r \in featured_music : r.position >= 1

C19_ItemsOrderIrrelevant ==
    \A items \in ReorderRequest :
       \A p \in {q \in [DOMAIN items -> DOMAIN items] :
                    \A i, j \in DOMAIN items : (i # j) => q[i] # q[j]} :
          LET permuted == [i \in DOMAIN items |-> items[p[i]]]
          IN /\ reorder_featured_outcome(permuted, FALSE)
                   = reorder_featured_outcome(items, FALSE)
             /\ \A a \in ArtistIds :
                   /\ reorder_songs_outcome(a, permuted, FALSE)
                         = reorder_songs_outcome(a, items, FALSE)
                   /\ reorder_videos_outcome(a, permuted, FALSE)
                         = reorder_videos_outcome(a, items, FALSE)

\* C20: reorder_artist_songs / reorder_artist_videos for an artist id that
\* does not exist is answered 404, whatever the items are, and leaves every
\* stored row as it was.
C20_ReorderUnknownArtist ==
    [][(/\ Idle
        /\ last'.op \in {"reorder_artist_songs", "reorder_artist_videos"}
        /\ last'.artist \cap artists = {})
       => (last'.status = 404 /\ UNCHANGED db)]_vars

\* a reorder for a missing artist that lists a stored song was answered 404
C20_Witness ==
    /\ last.op = "reorder_artist_songs"
    /\ last.status = 404
    /\ last.artist \cap artists = {}
    /\ Len(last.items) = 2
    /\ last.items[1].id \in DOMAIN songs

C24_BatchPositionsDistinct ==
    [][/\ (last'.op = "add_song" /\ last'.status = 201) =>
             \A i \in DOMAIN last'.created :
                LET a == TheOne(last'.batch[i])
                    before == {r.display_order :
                                  r \in {x \in artist_song_orders : x.artist_id = a}}
                    m == IF before = {} THEN 0
                         ELSE CHOOSE x \in before : \A p \in before : p <= x
                    nth == Cardinality({j \in 1..i : last'.batch[j] = last'.batch[i]})
                IN [artist_id |-> a, song_id |-> last'.created[i],
                    display_order |-> m + nth] \in artist_song_orders'
       /\ (last'.op = "add_videos" /\ last'.status = 201) =>
             \A i \in DOMAIN last'.created :
                LET a == last'.batch[i]
                    before == {r.display_order :
                                  r \in {x \in artist_video_orders : x.artist_id = a}}
                    m == IF before = {} THEN 0
                         ELSE CHOOSE x \in before : \A p \in before : p <= x
                    nth == Cardinality({j \in 1..i : last'.batch[j] = last'.batch[i]})
                IN [artist_id |-> a, video_id |-> last'.created[i],
                    display_order |-> m + nth] \in artist_video_orders'
      ]_vars

C27_DeleteArtistAllOrNothing ==
    [][(Idle /\ last'.op = "delete_artist") =>
          /\ (last'.status # 204) => UNCHANGED db
          /\ (last'.artist \subseteq artists') => UNCHANGED db
          /\ (last'.status = 204) =>
                /\ artists' = artists \ last'.artist
                /\ DOMAIN songs' = {s \in DOMAIN songs : songs[s] # last'.artist}
                /\ DOMAIN videos' = {v \in DOMAIN videos : videos[v] # last'.artist}
                /\ artist_song_orders' =
                      {r \in artist_song_orders :
                          /\ r.artist_id \notin last'.artist
                          /\ r.song_id \in DOMAIN songs'}
                /\ artist_video_orders' =
                      {r \in artist_video_orders :
                          /\ r.artist_id \notin last'.artist
                          /\ r.video_id \in DOMAIN videos'}
                /\ featured_music' =
                      {r \in featured_music : r.song_id \in DOMAIN songs'}]_vars

\* a delete_artist of an artist with a song and its order entry failed, and
\* the artist, the song and the entry are all still stored
C27_Witness ==
    /\ last.op = "delete_artist"
    /\ last.status = 500
    /\ last.artist \subseteq artists
    /\ \E r \in artist_song_orders :
          /\ r.artist_id \in last.artist
          /\ r.song_id \in DOMAIN songs
          /\ songs[r.song_id] = last.artist

\* C28: in every state, a reorder_artist_songs / reorder_artist_videos request
\* for a stored artist whose listed children all belong to the artist is
\* answered 200 when no storage fault occurs and leaves exactly one order entry
\* of the artist per listed child, whether or not the child had an entry and
\* whether or not its id occurs more than once in items.
C28_ValidReorderSucceeds ==
    \A artist_id \in artists, items \in ReorderRequest :
       /\ (songs_not_owned(artist_id, items) = {}) =>
             LET outcome == reorder_songs_outcome(artist_id, items, FALSE)
             IN /\ outcome.status = 200
                /\ \A i \in DOMAIN items :
                      Cardinality({r \in outcome.rows :
                                      /\ r.artist_id = artist_id
                                      /\ r.song_id = items[i].id}) = 1
       /\ (videos_not_owned(artist_id, items) = {}) =>
             LET outcome == reorder_videos_outcome(artist_id, items, FALSE)
             IN /\ outcome.status = 200
                /\ \A i \in DOMAIN items :
                      Cardinality({r \in outcome.rows :
                                      /\ r.artist_id = artist_id
                                      /\ r.video_id = items[i].id}) = 1

\* C29: a reorder answered 200 changes nothing but the order entries it lists:
\* reorder_artist_songs(A, items) leaves every artist-song entry that is not
\* an entry of A for a listed song as it was, and the artist-video entries,
\* the featured entries and the artist, song and video rows unchanged;
\* reorder_artist_videos likewise; reorder_featured_music leaves the entries
\* of the songs it does not list, the set of featured songs and every other
\* table unchanged.
C29_ReorderFrame ==
    [][(Idle /\ last'.status = 200) =>
          LET listed == {last'.items[i].id : i \in DOMAIN last'.items}
          IN
          /\ (last'.op = "reorder_artist_songs") =>
                /\ {r \in artist_song_orders' :
                       ~(r.artist_id \in last'.artist /\ r.song_id \in listed)}
                     = {r \in artist_song_orders :
                          ~(r.artist_id \in last'.artist /\ r.song_id \in listed)}
                /\ UNCHANGED <<artists, songs, videos, artist_video_orders,
                               featured_music>>
          /\ (last'.op = "reorder_artist_videos") =>
                /\ {r \in artist_video_orders' :
                       ~(r.artist_id \in last'.artist /\ r.video_id \in listed)}
                     = {r \in artist_video_orders :
                          ~(r.artist_id \in last'.artist /\ r.video_id \in listed)}
                /\ UNCHANGED <<artists, songs, videos, artist_song_orders,
                               featured_music>>
          /\ (last'.op = "reorder_featured_music") =>
                /\ {r \in featured_music' : r.song_id \notin listed}
                     = {r \in featured_music : r.song_id \notin listed}
                /\ {r.song_id : r \in featured_music'}
                     = {r.song_id : r \in featured_music}
                /\ Cardinality(featured_music') = Cardinality(featured_music)
                /\ UNCHANGED <<artists, songs, videos, artist_song_orders,
                               artist_video_orders>>]_vars

\* a reorder of one song of an artist succeeded while the artist has an entry
\* for another song, which the request did not list
C29_Witness ==
    /\ last.op = "reorder_artist_songs"
    /\ last.status = 200
    /\ Len(last.items) = 1
    /\ \E r1, r2 \in artist_song_orders :
          /\ r1.artist_id \in last.artist /\ r2.artist_id \in last.artist
          /\ r1.song_id = last.items[1].id
          /\ r1.display_order = last.items[1].position
          /\ r2.song_id # r1.song_id
          /\ r2.display_order # r1.display_order

=============================================================================
